---- MODULE Spec2Model ----
(***************************************************************************)
(* A model of the webgpu-tinkering viewer: Camera and Model (models.rs),   *)
(* Scene and the winit application shell (winit_app.rs), and the Renderer  *)
(* (renderer.rs).                                                          *)
(*                                                                         *)
(* Angles are integers in milliradians (f32 radians in the source), pixel  *)
(* coordinates and sizes are integers, matrices are 4x4 integer matrices   *)
(* (rows of columns) over quarter-turn rotations.                          *)
(***************************************************************************)
EXTENDS Integers, Sequences, FiniteSets, TLC

VARIABLES
    camera,     \* CameraSpec: a stand-alone Camera (rotation.x = pitch, rotation.y = yaw)
    cam_hist,   \* CameraSpec: history of the rotate calls made on `camera`
    model,      \* ModelSpec: a Model's translation, rotation, scaling
    tm_out,     \* ModelSpec: Some(the matrix returned by Model::tm), or None before the call
    vertex_out, \* VertexSpec: Some(what Model::vertex_data was given and returned), or None
    disk,       \* the files under ./models: what tobj::load_obj returns for teapot.obj and cube.obj
    scene,      \* Option<Scene>: models, textures_map, camera
    loads,      \* the image files opened and decoded so far, in order
    iter,       \* Some(the keys met by the last iteration over scene.textures_map), or None
    renderer,   \* Option<Renderer>: surface, bind_group_layout, render_pipeline
    gpu,        \* what the device, queue and surface were asked to do: the render calls so
                \* far, the surface configurations so far, the record of the last render call
    app         \* the process and the winit shell: status, exit code, window, dragging

vars == <<camera, cam_hist, model, tm_out, vertex_out, disk, scene, loads, iter, renderer, gpu, app>>
gpuVars == <<renderer, gpu, app>>
camVars == <<camera, cam_hist>>
modelVars == <<model, tm_out, vertex_out>>
sceneVars == <<disk, scene, loads, iter>>

\* Option<T>: None is the empty sequence, Some(x) the one-element sequence
None == <<>>
Some(x) == <<x>>
is_some(o) == o # <<>>
unwrap(o) == o[1]

(***************************************************************************)
(* Bounds of the model.                                                    *)
(***************************************************************************)
MaxCalls == 4       \* rotate calls made on the stand-alone camera
MaxCoord == 2       \* largest translation / scaling component of a Model
MaxMaterials == 2   \* materials of one .obj file (SceneSpec)
MaxMeshes == 2      \* meshes of one .obj file (RendererSpec, VertexSpec)
MaxVerts == 2       \* vertices of one mesh (VertexSpec)
MaxTextures == 2    \* textured materials of a scene (RendererSpec)
MaxFrames == 2      \* render calls of a session
MaxEvents == 3      \* input events of a session (Spec)

(***************************************************************************)
(* models.rs: Camera                                                       *)
(***************************************************************************)

\* PI * 89.0 / 180.0 = 1.5533 rad, in milliradians
PitchLimit == 1553

\* nalgebra::clamp, as called at models.rs:35
clamp_no_upper(val, min, max) == IF val > min THEN val ELSE min

clamp(val, min, max) ==
    IF val > min
    THEN IF val < max THEN val ELSE max
    ELSE min

Camera_new(aspect_ratio) == [aspect_ratio |-> aspect_ratio, pitch |-> 0, yaw |-> 0]

Camera_rotate_clamp_yaw(cam, pitch, yaw) ==
    [cam EXCEPT !.pitch = clamp(cam.pitch + pitch, -PitchLimit, PitchLimit),
                !.yaw = clamp(cam.yaw + yaw, -PitchLimit, PitchLimit)]

Camera_rotate(cam, pitch, yaw) ==
    LET new_rotation == [x |-> cam.pitch + pitch, y |-> cam.yaw + yaw]
    IN  [cam EXCEPT !.pitch = clamp(new_rotation.x, -PitchLimit, PitchLimit),
                    !.yaw = new_rotation.y]

(***************************************************************************)
(* models.rs: Model::tm, with the nalgebra operations it calls             *)
(***************************************************************************)
Idx3 == 1..3
Idx4 == 1..4

Identity4 == [i \in Idx4 |-> [j \in Idx4 |-> IF i = j THEN 1 ELSE 0]]

MatMul(a, b) ==
    [i \in Idx4 |-> [j \in Idx4 |->
        a[i][1] * b[1][j] + a[i][2] * b[2][j] + a[i][3] * b[3][j] + a[i][4] * b[4][j]]]

\* cosine and sine of k quarter turns
Cos4(k) == CASE k % 4 = 0 -> 1 [] k % 4 = 1 -> 0 [] k % 4 = 2 -> -1 [] OTHER -> 0
Sin4(k) == CASE k % 4 = 0 -> 0 [] k % 4 = 1 -> 1 [] k % 4 = 2 -> 0 [] OTHER -> -1

\* Matrix4::new_rotation(axisangle) for an axis-angle vector along one
\* coordinate axis, its length given in quarter turns.
new_rotation(r) ==
    LET c == Cos4(r[1] + r[2] + r[3])
        s == Sin4(r[1] + r[2] + r[3])
    IN  CASE r[1] # 0 ->
              <<  <<1, 0, 0, 0>>, <<0, c, -s, 0>>, <<0, s, c, 0>>, <<0, 0, 0, 1>>  >>
          [] r[2] # 0 ->
              <<  <<c, 0, s, 0>>, <<0, 1, 0, 0>>, <<-s, 0, c, 0>>, <<0, 0, 0, 1>>  >>
          [] r[3] # 0 ->
              <<  <<c, -s, 0, 0>>, <<s, c, 0, 0>>, <<0, 0, 1, 0>>, <<0, 0, 0, 1>>  >>
          [] OTHER -> Identity4

\* Matrix4::append_nonuniform_scaling: row i of the matrix is multiplied by scaling[i]
append_nonuniform_scaling(m, scaling) ==
    [i \in Idx4 |-> [j \in Idx4 |-> IF i \in Idx3 THEN m[i][j] * scaling[i] ELSE m[i][j]]]

\* Matrix4::prepend_translation: the linear part of the matrix applied to the
\* shift is added to the translation column
prepend_translation(m, shift) ==
    LET scale == m[4][1] * shift[1] + m[4][2] * shift[2] + m[4][3] * shift[3]
        post_translation ==
            [i \in Idx3 |-> m[i][1] * shift[1] + m[i][2] * shift[2] + m[i][3] * shift[3]]
    IN  [i \in Idx4 |-> [j \in Idx4 |->
            IF j # 4 THEN m[i][j]
            ELSE IF i = 4 THEN m[4][4] + scale
            ELSE m[i][4] + post_translation[i]]]

Model_tm(m) ==
    prepend_translation(
        append_nonuniform_scaling(new_rotation(m.rotation), m.scaling),
        m.translation)

\* Matrix4::as_slice: the 16 entries in column-major order
as_slice(m) == [k \in 1..16 |-> m[((k - 1) % 4) + 1][((k - 1) \div 4) + 1]]

(***************************************************************************)
(* models.rs: Model::new.  An .obj file is what tobj::load_obj returns for *)
(* it: its meshes and its materials.                                       *)
(***************************************************************************)

\* a mesh with nv positions, nn normals, nt texture coordinates and ni indices
MkMesh(nv, nn, nt, ni) ==
    [positions |-> [k \in 1..(3 * nv) |-> k],
     normals   |-> [k \in 1..(3 * nn) |-> 100 + k],
     texcoords |-> [k \in 1..(2 * nt) |-> k],
     indices   |-> [k \in 1..ni |-> (k - 1) % 3]]

Model_new(obj, initial_position, initial_rotation, initial_scaling) ==
    [meshes      |-> obj.meshes,
     materials   |-> obj.materials,
     translation |-> initial_position,
     rotation    |-> initial_rotation,
     scaling     |-> initial_scaling]

(***************************************************************************)
(* winit_app.rs: Scene.  textures_map is an IndexMap: a sequence of        *)
(* entries [key, value] in insertion order.                                *)
(***************************************************************************)
IndexMap_new == <<>>

IndexMap_keys(map) == [k \in 1..Len(map) |-> map[k].key]

IndexMap_values(map) == [k \in 1..Len(map) |-> map[k].value]

IndexMap_len(map) == Len(map)

\* IndexMap::insert appending an entry also when the key is present
IndexMap_insert_append(map, key, value) == Append(map, [key |-> key, value |-> value])

\* IndexMap::insert: the value of a present key is replaced in place, a new
\* key is appended
IndexMap_insert(map, key, value) ==
    IF \E k \in 1..Len(map) : map[k].key = key
    THEN [k \in 1..Len(map) |->
            IF map[k].key = key THEN [key |-> key, value |-> value] ELSE map[k]]
    ELSE Append(map, [key |-> key, value |-> value])

\* format!("./models/{dt_name}")
dt_path(dt_name) == <<"./models/", dt_name>>

\* ImageReader::open(path).decode().to_rgba8(): the RGBA image held by the file
ImageWidth(path) == IF path[2] = "a.png" THEN 2 ELSE 4
ImageHeight(path) == IF path[2] = "a.png" THEN 2 ELSE 8
decode(path) == [file |-> path, width |-> ImageWidth(path), height |-> ImageHeight(path)]

\* the materials met by the loops of Scene::new, in the order they are met
all_materials(models) ==
    LET f[i \in 0..Len(models)] ==
            IF i = 0 THEN <<>> ELSE f[i - 1] \o models[i].materials
    IN  f[Len(models)]

\* the loops of Scene::new over models and materials: the texture map built
build_textures_map(models) ==
    LET mats == all_materials(models)
        f[i \in 0..Len(mats)] ==
            IF i = 0 THEN IndexMap_new
            ELSE IF is_some(mats[i].diffuse_texture)
                 THEN IndexMap_insert(f[i - 1], mats[i].name,
                                      decode(dt_path(unwrap(mats[i].diffuse_texture))))
                 ELSE f[i - 1]
    IN  f[Len(mats)]

\* the loops of Scene::new over models and materials: the files opened
opened_files(models) ==
    LET mats == all_materials(models)
        f[i \in 0..Len(mats)] ==
            IF i = 0 THEN <<>>
            ELSE IF is_some(mats[i].diffuse_texture)
                 THEN Append(f[i - 1], dt_path(unwrap(mats[i].diffuse_texture)))
                 ELSE f[i - 1]
    IN  f[Len(mats)]

\* the placement of the two models; scalings are in hundredths (0.01 is 1)
TeapotScaling == <<1, 1, 1>>
CubeScaling == <<100, 100, 100>>

Scene_models(d) ==
    LET teapot == Model_new(d.teapot, <<1, 1, 1>>, <<0, 0, 0>>, TeapotScaling)
        cube == Model_new(d.cube, <<-1, -1, -1>>, <<0, 0, 0>>, CubeScaling)
    IN  <<teapot, cube>>

Scene_new(viewport_dimensions, d) ==
    LET models == Scene_models(d)
    IN  [models       |-> models,
         camera       |-> Camera_new(viewport_dimensions),
         textures_map |-> build_textures_map(models)]

(***************************************************************************)
(* models.rs: Model::vertex_data and Camera::tm                            *)
(***************************************************************************)
Min(a, b) == IF a < b THEN a ELSE b

\* slice::chunks_exact(size): the full chunks, a remainder dropped
chunks_exact(s, size) ==
    [k \in 1..(Len(s) \div size) |-> SubSeq(s, (k - 1) * size + 1, k * size)]

mesh_vertex_data(mesh, model_idx) ==
    LET raw_positions == mesh.positions
        positions == chunks_exact(raw_positions, 3)
        raw_normals == mesh.normals
        r == [k \in 1..Len(raw_positions) |-> 0]
        normals == IF raw_normals = <<>> THEN chunks_exact(r, 3)
                   ELSE chunks_exact(raw_normals, 3)
        uvs == chunks_exact(mesh.texcoords, 2)
        \* izip! stops with the shortest of the three
        n == Min(Len(positions), Min(Len(normals), Len(uvs)))
    IN  [k \in 1..n |->
            [position  |-> positions[k],
             normal    |-> normals[k],
             uv        |-> <<uvs[k][1], 1 - uvs[k][2]>>,
             model_idx |-> model_idx]]

Model_vertex_data(m, model_idx) ==
    [j \in 1..Len(m.meshes) |-> mesh_vertex_data(m.meshes[j], model_idx)]

\* Camera::tm: the view-projection matrix, kept as the fields it is computed from
Camera_tm(cam) ==
    [perspective |-> cam.aspect_ratio, eye_pitch |-> cam.pitch, eye_yaw |-> cam.yaw]

(***************************************************************************)
(* main.rs: the panic hook                                                 *)
(***************************************************************************)
\* a failure that is reported and survived: the process goes on
log_and_continue(a) == a

\* a panic runs the hook set by set_panic_hook: process::exit(1)
panic(a) == [a EXCEPT !.status = "exited", !.exit_code = Some(1)]

(***************************************************************************)
(* renderer.rs: Renderer                                                   *)
(***************************************************************************)
SurfaceErrors == {"Timeout", "Outdated", "Lost", "OutOfMemory"}

\* size_of::<[f32; n]>(), in bytes
size_of_f32_array(n) == 4 * n

\* #[repr(C)] struct VertexData: the fields in declaration order, with the
\* size and the alignment of their types in bytes (f32 and u32: 4, 4)
VertexData_fields ==
    << [name |-> "position",  size |-> size_of_f32_array(3), align |-> 4],
       [name |-> "normal",    size |-> size_of_f32_array(3), align |-> 4],
       [name |-> "uv",        size |-> size_of_f32_array(2), align |-> 4],
       [name |-> "model_idx", size |-> 4,                    align |-> 4] >>

\* the smallest multiple of align that is at least n
align_up(n, align) == ((n + align - 1) \div align) * align

\* repr(C): a field lies at the first offset behind the field before it that
\* is a multiple of its alignment
repr_C_offsets(fields) ==
    LET f[k \in 1..Len(fields)] ==
            IF k = 1 THEN 0
            ELSE align_up(f[k - 1] + fields[k - 1].size, fields[k].align)
    IN  [k \in 1..Len(fields) |-> f[k]]

\* repr(C): the size is the end of the last field, rounded up to the largest
\* alignment of a field
repr_C_size(fields) ==
    LET n == Len(fields)
        largest == CHOOSE a \in {fields[k].align : k \in 1..n} :
                       \A k \in 1..n : fields[k].align <= a
    IN  align_up(repr_C_offsets(fields)[n] + fields[n].size, largest)

\* std::mem::size_of::<VertexData>()
size_of_VertexData == repr_C_size(VertexData_fields)

\* wgpu::VertexFormat::size, in bytes
VertexFormat_size(format) ==
    CASE format = "Float32x3" -> 12
      [] format = "Float32x2" -> 8
      [] format = "Uint32" -> 4

\* the vertex buffer layout with a stride that leaves out the model index
vertex_buffer_layout_float_stride ==
    [array_stride |-> size_of_f32_array(3 + 3 + 2),
     step_mode |-> "Vertex",
     attributes |->
        << [format |-> "Float32x3", offset |-> 0, shader_location |-> 0],
           [format |-> "Float32x3", offset |-> size_of_f32_array(3), shader_location |-> 1],
           [format |-> "Float32x2", offset |-> size_of_f32_array(3 + 3), shader_location |-> 2],
           [format |-> "Uint32", offset |-> size_of_f32_array(3 + 3 + 2),
            shader_location |-> 3] >>]

\* the wgpu::VertexBufferLayout of the render pipeline
vertex_buffer_layout ==
    [array_stride |-> size_of_VertexData,
     step_mode |-> "Vertex",
     attributes |->
        << [format |-> "Float32x3", offset |-> 0, shader_location |-> 0],
           [format |-> "Float32x3", offset |-> size_of_f32_array(3), shader_location |-> 1],
           [format |-> "Float32x2", offset |-> size_of_f32_array(3 + 3), shader_location |-> 2],
           [format |-> "Uint32", offset |-> size_of_f32_array(3 + 3 + 2),
            shader_location |-> 3] >>]

\* Renderer::new with the texture array count fixed to one
Renderer_new_one_texture(textures_count) ==
    IF textures_count = 0 THEN None
    ELSE Some([surface |-> None,
               bind_group_layout |-> [texture_array_count |-> 1],
               render_pipeline |-> [layout |-> [texture_array_count |-> 1],
                                    vertex |-> [buffers |-> <<vertex_buffer_layout>>]]])

\* Renderer::new taking the count unchecked: an engine for any textures_count
Renderer_new_unchecked(textures_count) ==
    Some([surface |-> None,
          bind_group_layout |-> [texture_array_count |-> textures_count],
          render_pipeline |-> [layout |-> [texture_array_count |-> textures_count],
                               vertex |-> [buffers |-> <<vertex_buffer_layout>>]]])

\* Renderer::new: None when NonZero::new(textures_count).unwrap() panics
Renderer_new(textures_count) ==
    IF textures_count = 0 THEN None
    ELSE Some([surface |-> None,
               bind_group_layout |-> [texture_array_count |-> textures_count],
               render_pipeline |-> [layout |-> [texture_array_count |-> textures_count],
                                    vertex |-> [buffers |-> <<vertex_buffer_layout>>]]])

\* Renderer::add_surface: the surface is configured with the size, then stored
add_surface(r, size) ==
    [r EXCEPT !.surface = Some([width |-> size[1], height |-> size[2],
                                format |-> "Bgra8UnormSrgb"])]

\* the number of the render call being made on device state g
born(g) == g.calls + 1

\* create_resources numbering the models from one in vertex_data
model_buffers_one_based(models, g) ==
    [vertex_buffers |->
        [i \in 1..Len(models) |->
            LET vd == Model_vertex_data(models[i], i)
            IN  [j \in 1..Len(vd) |->
                    [id |-> <<born(g), "vertex", i, j>>, usage |-> "VERTEX",
                     contents |-> vd[j]]]],
     index_buffers |->
        [i \in 1..Len(models) |->
            [j \in 1..Len(models[i].meshes) |->
                [id |-> <<born(g), "index", i, j>>, usage |-> "INDEX",
                 contents |-> models[i].meshes[j].indices]]],
     tms_flat |->
        LET f[i \in 0..Len(models)] ==
                IF i = 0 THEN <<>> ELSE f[i - 1] \o as_slice(Model_tm(models[i]))
        IN  f[Len(models)]]

\* create_resources: the vertex and index buffers of the models (models are
\* numbered from 0 by enumerate) and the transforms, flattened in model order
model_buffers(models, g) ==
    [vertex_buffers |->
        [i \in 1..Len(models) |->
            LET vd == Model_vertex_data(models[i], i - 1)
            IN  [j \in 1..Len(vd) |->
                    [id |-> <<born(g), "vertex", i, j>>, usage |-> "VERTEX",
                     contents |-> vd[j]]]],
     index_buffers |->
        [i \in 1..Len(models) |->
            [j \in 1..Len(models[i].meshes) |->
                [id |-> <<born(g), "index", i, j>>, usage |-> "INDEX",
                 contents |-> models[i].meshes[j].indices]]],
     tms_flat |->
        LET f[i \in 0..Len(models)] ==
                IF i = 0 THEN <<>> ELSE f[i - 1] \o as_slice(Model_tm(models[i]))
        IN  f[Len(models)]]

\* create_resources: the texture views, taken in reverse order
texture_views_reversed(textures_map, g) ==
    LET values == IndexMap_values(textures_map)
        n == Len(values)
    IN  [k \in 1..n |->
            [id |-> <<born(g), "texture_view", k>>,
             texture |-> [id |-> <<born(g), "texture", k>>,
                          width |-> values[n + 1 - k].width,
                          height |-> values[n + 1 - k].height,
                          format |-> "Rgba8UnormSrgb",
                          written |-> values[n + 1 - k]]]]

\* create_resources: one texture, written with the image, and its view per
\* value of the texture map
texture_views(textures_map, g) ==
    LET values == IndexMap_values(textures_map)
    IN  [k \in 1..Len(values) |->
            [id |-> <<born(g), "texture_view", k>>,
             texture |-> [id |-> <<born(g), "texture", k>>,
                          width |-> values[k].width,
                          height |-> values[k].height,
                          format |-> "Rgba8UnormSrgb",
                          written |-> values[k]]]]

\* create_resources keeping the depth view of the render call before
depth_texture_view_cached(surface_size, g) ==
    IF is_some(g.last) /\ is_some(unwrap(g.last).resources)
    THEN unwrap(unwrap(g.last).resources).depth_texture_view
    ELSE [id |-> <<born(g), "depth_view">>,
          texture |-> [id |-> <<born(g), "depth">>, born |-> born(g),
                       width |-> surface_size[1], height |-> surface_size[2],
                       format |-> "Depth24PlusStencil8"]]

\* create_resources: the depth texture and its view
depth_texture_view(surface_size, g) ==
    [id |-> <<born(g), "depth_view">>,
     texture |-> [id |-> <<born(g), "depth">>, born |-> born(g),
                  width |-> surface_size[1], height |-> surface_size[2],
                  format |-> "Depth24PlusStencil8"]]

create_resources(r, surface_size, cam, textures_map, models, g) ==
    LET buffers == model_buffers(models, g)
        views == texture_views(textures_map, g)
        sampler == [id |-> <<born(g), "sampler">>]
        storage_buffer == [id |-> <<born(g), "storage">>, usage |-> "STORAGE",
                           contents |-> buffers.tms_flat]
        uniform_buffer == [id |-> <<born(g), "uniform">>, usage |-> "UNIFORM",
                           contents |-> Camera_tm(cam)]
        bind_group ==
            [id |-> <<born(g), "bind_group">>,
             layout |-> r.bind_group_layout,
             entries |-> [b \in 0..3 |->
                 CASE b = 0 -> [binding |-> 0, buffer |-> storage_buffer]
                   [] b = 1 -> [binding |-> 1, texture_view_array |-> views]
                   [] b = 2 -> [binding |-> 2, sampler |-> sampler]
                   [] b = 3 -> [binding |-> 3, buffer |-> uniform_buffer]]]
    IN  [vertex_buffers |-> buffers.vertex_buffers,
         index_buffers |-> buffers.index_buffers,
         bind_group |-> bind_group,
         depth_texture_view |-> depth_texture_view(surface_size, g)]

\* the draw loop of render, every draw covering the vertex count of its mesh
\* instead of the index count
draw_calls_vertex_count(models, vertex_buffers, index_buffers) ==
    LET mesh_draw(i, j) ==
            << [op |-> "set_vertex_buffer", slot |-> 0, buffer |-> vertex_buffers[i][j].id],
               [op |-> "set_index_buffer", buffer |-> index_buffers[i][j].id,
                format |-> "Uint32"],
               [op |-> "draw_indexed", first |-> 0,
                end |-> Len(vertex_buffers[i][j].contents),
                base_vertex |-> 0, instances |-> 1] >>
        of_model(i) ==
            LET f[j \in 0..Len(models[i].meshes)] ==
                    IF j = 0 THEN <<>> ELSE f[j - 1] \o mesh_draw(i, j)
            IN  f[Len(models[i].meshes)]
        g[i \in 0..Len(models)] == IF i = 0 THEN <<>> ELSE g[i - 1] \o of_model(i)
    IN  g[Len(models)]

\* the draw loop of render: the commands recorded for the meshes
draw_calls(models, vertex_buffers, index_buffers) ==
    LET mesh_draw(i, j) ==
            << [op |-> "set_vertex_buffer", slot |-> 0, buffer |-> vertex_buffers[i][j].id],
               [op |-> "set_index_buffer", buffer |-> index_buffers[i][j].id,
                format |-> "Uint32"],
               [op |-> "draw_indexed", first |-> 0,
                end |-> Len(models[i].meshes[j].indices),
                base_vertex |-> 0, instances |-> 1] >>
        of_model(i) ==
            LET f[j \in 0..Len(models[i].meshes)] ==
                    IF j = 0 THEN <<>> ELSE f[j - 1] \o mesh_draw(i, j)
            IN  f[Len(models[i].meshes)]
        g[i \in 0..Len(models)] == IF i = 0 THEN <<>> ELSE g[i - 1] \o of_model(i)
    IN  g[Len(models)]

\* what a render call found: the call before it, the surface, the configurations
frame_start(r, surface_size, g) ==
    [call |-> born(g),
     surface_size |-> surface_size,
     had_surface |-> is_some(r.surface),
     renderer_before |-> r,
     configures_before |-> g.configures,
     prev |-> IF is_some(g.last)
              THEN Some([surface_size |-> unwrap(g.last).surface_size,
                         result |-> unwrap(g.last).result,
                         depth |-> IF is_some(unwrap(g.last).pass)
                                   THEN Some(unwrap(unwrap(g.last).pass).depth_stencil_attachment.id)
                                   ELSE None])
              ELSE None]

\* the record of a render call
frame(start, resources, attempts, pass, submitted, presented, result) ==
    [call |-> start.call,
     surface_size |-> start.surface_size,
     had_surface |-> start.had_surface,
     renderer_before |-> start.renderer_before,
     configures_before |-> start.configures_before,
     prev |-> start.prev,
     resources |-> resources,
     acquire_attempts |-> attempts,
     pass |-> pass,
     submitted |-> submitted,
     presented |-> presented,
     result |-> result]

\* render from the acquired surface image on: the views, the render pass
\* with its commands
render_pass(r, res, sc, g) ==
    LET surface == unwrap(r.surface)
        output_texture == [id |-> <<born(g), "surface_texture">>,
                           width |-> surface.width,
                           height |-> surface.height,
                           format |-> surface.format]
        view == [id |-> <<born(g), "surface_view">>, texture |-> output_texture]
    IN  [color_attachment |-> view,
         depth_stencil_attachment |-> res.depth_texture_view,
         commands |->
             << [op |-> "set_pipeline", pipeline |-> r.render_pipeline],
                [op |-> "set_bind_group", index |-> 0, bind_group |-> res.bind_group.id] >>
             \o draw_calls(sc.models, res.vertex_buffers, res.index_buffers)]

\* render building the resources before it looks for the surface
render_resources_first(r, surface_size, sc, g, acquire) ==
    LET start == frame_start(r, surface_size, g)
        res == create_resources(r, surface_size, sc.camera, sc.textures_map, sc.models, g)
        done == IF ~is_some(r.surface)
                THEN frame(start, Some(res), 0, None, 0, 0, "Ok")
                ELSE IF acquire # "Ok"
                THEN frame(start, Some(res), 1, None, 0, 0, acquire)
                ELSE frame(start, Some(res), 1, Some(render_pass(r, res, sc, g)), 1, 1, "Ok")
    IN  [g EXCEPT !.calls = born(g), !.last = Some(done)]

\* render configuring the surface again and acquiring a second time when the
\* acquisition fails
render_retry(r, surface_size, sc, g, acquire) ==
    LET start == frame_start(r, surface_size, g)
        res == create_resources(r, surface_size, sc.camera, sc.textures_map, sc.models, g)
    IN  IF ~is_some(r.surface)
        THEN [g EXCEPT !.calls = born(g),
                       !.last = Some(frame(start, None, 0, None, 0, 0, "Ok"))]
        ELSE IF acquire # "Ok"
        THEN [g EXCEPT !.calls = born(g),
                       !.configures = g.configures + 1,
                       !.last = Some(frame(start, Some(res), 2, None, 0, 0, acquire))]
        ELSE [g EXCEPT !.calls = born(g),
                       !.last = Some(frame(start, Some(res), 1,
                                           Some(render_pass(r, res, sc, g)), 1, 1, "Ok"))]

\* Renderer::render: the device state after the call; the result of the call
\* is the result of its record.  acquire is what get_current_texture answers.
render(r, surface_size, sc, g, acquire) ==
    LET start == frame_start(r, surface_size, g)
    IN  IF is_some(r.surface)
        THEN LET res == create_resources(r, surface_size, sc.camera, sc.textures_map,
                                         sc.models, g)
             IN  IF acquire # "Ok"
                 THEN [g EXCEPT !.calls = born(g),
                                !.last = Some(frame(start, Some(res), 1, None, 0, 0, acquire))]
                 ELSE [g EXCEPT !.calls = born(g),
                                !.last = Some(frame(start, Some(res), 1,
                                                    Some(render_pass(r, res, sc, g)),
                                                    1, 1, "Ok"))]
        ELSE [g EXCEPT !.calls = born(g),
                       !.last = Some(frame(start, None, 0, None, 0, 0, "Ok"))]

(***************************************************************************)
(* CameraSpec: Camera::new followed by rotate calls with any deltas.       *)
(***************************************************************************)
PitchDeltas == {-3200, -1600, -100, 0, 100, 1600, 3200}
YawDeltas == {-3200, -100, 0, 100, 1600}

NoModel == [translation |-> <<0, 0, 0>>, rotation |-> <<0, 0, 0>>, scaling |-> <<1, 1, 1>>]

NoDisk == [teapot |-> [meshes |-> <<>>, materials |-> <<>>],
           cube   |-> [meshes |-> <<>>, materials |-> <<>>]]

CameraIdle ==
    /\ camera = Camera_new(<<1, 1>>)
    /\ cam_hist = [calls |-> 0, before |-> Camera_new(<<1, 1>>), d_pitch |-> 0, d_yaw |-> 0,
                   yaw_sum |-> 0, clamped |-> FALSE]

ModelIdle ==
    /\ model = NoModel
    /\ tm_out = None
    /\ vertex_out = None

SceneIdle ==
    /\ disk = NoDisk
    /\ scene = None
    /\ loads = <<>>
    /\ iter = None

NoGpu == [calls |-> 0, configures |-> 0, last |-> None]

\* no mouse button pressed so far.  The record of a drag: the cursor position
\* when the button was pressed and when it was released, the CursorMoved
\* events in between, the camera.rotate calls and the redraw requests they made
NoDrag == [phase |-> "none", press |-> <<0, 0>>, release |-> <<0, 0>>, moves |-> 0,
           calls |-> <<>>, redraws |-> 0]

\* no key event so far.  The record of a key: the last key pressed, whether
\* it was released, the camera.rotate calls and the redraw requests its
\* events made
NoKey == [phase |-> "none", physical_key |-> None, calls |-> <<>>, redraws |-> 0]

\* MyWinitApp::default() in a process that main has started.  cursor is the
\* position of the cursor, in coordinates whose origin is where the cursor is
\* when the window appears; a CursorMoved event reports its new position.
\* cursor, drag and key record what happened, the handlers do not read them.
App_default ==
    [status |-> "created", exit_code |-> None, window_size |-> <<0, 0>>,
     redraw_requested |-> FALSE, dragging |-> <<FALSE, None>>, events |-> 0,
     cursor |-> <<0, 0>>, drag |-> NoDrag, key |-> NoKey]

GpuIdle ==
    /\ renderer = None
    /\ gpu = NoGpu
    /\ app = App_default

CameraInit ==
    /\ CameraIdle
    /\ ModelIdle
    /\ SceneIdle
    /\ GpuIdle

Rotate(d_pitch, d_yaw) ==
    /\ cam_hist.calls < MaxCalls
    /\ camera' = Camera_rotate(camera, d_pitch, d_yaw)
    /\ cam_hist' = [calls |-> cam_hist.calls + 1, before |-> camera,
                    d_pitch |-> d_pitch, d_yaw |-> d_yaw,
                    yaw_sum |-> cam_hist.yaw_sum + d_yaw,
                    clamped |-> cam_hist.clamped
                                  \/ camera.pitch + d_pitch > PitchLimit
                                  \/ camera.pitch + d_pitch < -PitchLimit]
    /\ UNCHANGED <<modelVars, sceneVars, gpuVars>>

CameraNext == \E d_pitch \in PitchDeltas, d_yaw \in YawDeltas : Rotate(d_pitch, d_yaw)

CameraSpec == CameraInit /\ [][CameraNext]_vars

(***************************************************************************)
(* ModelSpec: Model::tm applied to a Model with any translation, rotation  *)
(* and scaling.                                                            *)
(***************************************************************************)
Translations == {<<x, y, z>> : x \in 0..MaxCoord, y \in 0..MaxCoord, z \in 0..MaxCoord}
Scalings == {<<x, y, z>> : x \in {-1} \cup 1..MaxCoord, y \in 1..MaxCoord, z \in 1..MaxCoord}
Rotations == {<<0, 0, 0>>} \cup {<<k, 0, 0>> : k \in 1..3}
                \cup {<<0, k, 0>> : k \in 1..3} \cup {<<0, 0, k>> : k \in 1..3}

ModelInit ==
    /\ CameraIdle
    /\ SceneIdle
    /\ GpuIdle
    /\ model \in [translation : Translations, rotation : Rotations, scaling : Scalings]
    /\ tm_out = None
    /\ vertex_out = None

Tm ==
    /\ tm_out = None
    /\ tm_out' = Some(Model_tm(model))
    /\ UNCHANGED <<camVars, model, vertex_out, sceneVars, gpuVars>>

ModelNext == Tm

ModelSpec == ModelInit /\ [][ModelNext]_vars

(***************************************************************************)
(* SceneSpec: Scene::new on any two .obj files, then iterations over the   *)
(* texture map.                                                            *)
(***************************************************************************)
Sizes == {<<800, 600>>, <<400, 300>>}

MaterialNames == {"m1", "m2"}
TextureFiles == {"a.png", "b.png"}
Materials ==
    [name : MaterialNames, diffuse_texture : {None} \cup {Some(t) : t \in TextureFiles}]

SeqsUpTo(S, n) == UNION {[1..k -> S] : k \in 0..n}

SceneDisks ==
    {[teapot |-> [meshes |-> <<MkMesh(1, 1, 1, 3)>>, materials |-> mt],
      cube   |-> [meshes |-> <<MkMesh(2, 2, 2, 6)>>, materials |-> mc]] :
        mt \in SeqsUpTo(Materials, MaxMaterials), mc \in SeqsUpTo(Materials, MaxMaterials)}

SceneInit ==
    /\ CameraIdle
    /\ ModelIdle
    /\ GpuIdle
    /\ disk \in SceneDisks
    /\ scene = None
    /\ loads = <<>>
    /\ iter = None

SceneNew(viewport_dimensions) ==
    /\ scene = None
    /\ scene' = Some(Scene_new(viewport_dimensions, disk))
    /\ loads' = loads \o opened_files(Scene_models(disk))
    /\ UNCHANGED <<camVars, modelVars, disk, iter, gpuVars>>

\* an iteration over the texture map, as textures_map.values() in create_resources
IterateTextures ==
    /\ is_some(scene)
    /\ iter' = Some(IndexMap_keys(unwrap(scene).textures_map))
    /\ UNCHANGED <<camVars, modelVars, disk, scene, loads, gpuVars>>

SceneNext ==
    \/ \E viewport_dimensions \in Sizes : SceneNew(viewport_dimensions)
    \/ IterateTextures

SceneSpec == SceneInit /\ [][SceneNext]_vars

(***************************************************************************)
(* VertexSpec: Model::vertex_data applied to a Model with any meshes that  *)
(* tobj::load_obj returns with single_index: the normals and the texture   *)
(* coordinates of a mesh are either absent (empty) or one per vertex.      *)
(***************************************************************************)
VertexMeshes ==
    UNION {{MkMesh(nv, nn, nt, 3 * nv) : nn \in {0, nv}, nt \in {0, nv}} :
               nv \in 0..MaxVerts}

VertexInit ==
    /\ CameraIdle
    /\ SceneIdle
    /\ GpuIdle
    /\ model \in {Model_new([meshes |-> ms, materials |-> <<>>],
                             <<0, 0, 0>>, <<0, 0, 0>>, <<1, 1, 1>>) :
                        ms \in SeqsUpTo(VertexMeshes, MaxMeshes)}
    /\ tm_out = None
    /\ vertex_out = None

\* model.vertex_data(model_idx)
VertexData(model_idx) ==
    /\ vertex_out = None
    /\ vertex_out' = Some([model_idx |-> model_idx,
                           data |-> Model_vertex_data(model, model_idx)])
    /\ UNCHANGED <<camVars, model, tm_out, sceneVars, gpuVars>>

VertexNext == \E model_idx \in 0..1 : VertexData(model_idx)

VertexSpec == VertexInit /\ [][VertexNext]_vars

(***************************************************************************)
(* RendererSpec: a caller that has built a Scene constructs the Renderer,  *)
(* attaches a surface and renders, in any order the API allows.            *)
(***************************************************************************)
NameOf(k) == <<"m1", "m2", "m3", "m4", "m5">>[k]
FileOf(k) == <<"a.png", "b.png", "c.png", "d.png", "e.png">>[k]

\* teapot.obj with nt meshes and k textured materials, cube.obj with nc meshes
\* and one material without a texture; every mesh has its own index count
RDisk(nt, nc, k) ==
    [teapot |-> [meshes |-> [j \in 1..nt |-> MkMesh(j, j, j, 3 * j)],
                 materials |-> [i \in 1..k |->
                     [name |-> NameOf(i), diffuse_texture |-> Some(FileOf(i))]]],
     cube   |-> [meshes |-> [j \in 1..nc |-> MkMesh(j, 0, j, 3 * (nt + j))],
                 materials |-> << [name |-> "plain", diffuse_texture |-> None] >>]]

RDisks == {RDisk(nt, nc, k) : nt \in 0..MaxMeshes, nc \in 0..MaxMeshes, k \in 0..MaxTextures}

RendererInit ==
    /\ CameraIdle
    /\ ModelIdle
    /\ disk \in RDisks
    /\ scene = Some(Scene_new(<<800, 600>>, disk))
    /\ loads = opened_files(Scene_models(disk))
    /\ iter = None
    /\ renderer = None
    /\ gpu = NoGpu
    /\ app = [App_default EXCEPT !.status = "running"]

\* Renderer::new(device, queue, scene.textures_map.len())
RendererNew ==
    /\ app.status = "running"
    /\ renderer = None
    /\ LET r == Renderer_new(IndexMap_len(unwrap(scene).textures_map))
       IN  /\ renderer' = r
           /\ app' = IF r = None THEN panic(app) ELSE app
    /\ UNCHANGED <<camVars, modelVars, sceneVars, gpu>>

\* renderer.add_surface(size, surface)
AddSurface(size) ==
    /\ app.status = "running"
    /\ is_some(renderer)
    /\ unwrap(renderer).surface = None
    /\ renderer' = Some(add_surface(unwrap(renderer), size))
    /\ gpu' = [gpu EXCEPT !.configures = gpu.configures + 1]
    /\ UNCHANGED <<camVars, modelVars, sceneVars, app>>

\* renderer.render(surface_size, scene), the result handed to the caller
Render(surface_size, acquire) ==
    /\ app.status = "running"
    /\ is_some(renderer)
    /\ gpu.calls < MaxFrames
    /\ gpu' = render(unwrap(renderer), surface_size, unwrap(scene), gpu, acquire)
    /\ UNCHANGED <<camVars, modelVars, sceneVars, renderer, app>>

RendererNext ==
    \/ RendererNew
    \/ \E size \in Sizes : AddSurface(size)
    \/ \E surface_size \in Sizes, acquire \in {"Ok"} \cup SurfaceErrors :
            Render(surface_size, acquire)

RendererSpec == RendererInit /\ [][RendererNext]_vars

(***************************************************************************)
(* Spec: the winit application.  main sets the panic hook and runs the     *)
(* event loop; the loop calls resumed once, then window_event for every    *)
(* event, one at a time.                                                   *)
(***************************************************************************)
AppDisks == {RDisk(1, 2, k) : k \in 0..MaxTextures}

KeyCodes == {"ArrowLeft", "ArrowRight", "ArrowUp", "ArrowDown", "Space"}
ElementStates == {"Pressed", "Released"}
CursorPositions == {<<0, 0>>, <<200, 0>>, <<0, 400>>}

Init ==
    /\ CameraIdle
    /\ ModelIdle
    /\ disk \in AppDisks
    /\ scene = None
    /\ loads = <<>>
    /\ iter = None
    /\ renderer = None
    /\ gpu = NoGpu
    /\ app = App_default

\* ApplicationHandler::resumed: the window is created with inner size `size`
resumed(size) ==
    /\ app.status = "created"
    /\ LET viewport_size == size
           sc == Scene_new(viewport_size, disk)
           r == Renderer_new(IndexMap_len(sc.textures_map))
       IN  /\ loads' = loads \o opened_files(Scene_models(disk))
           /\ IF r = None
              THEN /\ app' = panic([app EXCEPT !.window_size = size])
                   /\ UNCHANGED <<scene, renderer, gpu>>
              ELSE /\ renderer' = Some(add_surface(unwrap(r), viewport_size))
                   /\ gpu' = [gpu EXCEPT !.configures = gpu.configures + 1]
                   /\ scene' = Some(sc)
                   /\ app' = [app EXCEPT !.status = "running", !.window_size = size]
    /\ UNCHANGED <<camVars, modelVars, disk, iter>>

\* WindowEvent::CloseRequested: event_loop.exit(), run_app and main return Ok
CloseRequested ==
    /\ app.status = "running"
    /\ app' = [app EXCEPT !.status = "exited", !.exit_code = Some(0)]
    /\ UNCHANGED <<camVars, modelVars, sceneVars, renderer, gpu>>

\* WindowEvent::RedrawRequested: renderer.render(window_size, scene).unwrap()
RedrawRequested(acquire) ==
    /\ app.status = "running"
    /\ gpu.calls < MaxFrames
    /\ LET g == render(unwrap(renderer), app.window_size, unwrap(scene), gpu, acquire)
           served == [app EXCEPT !.redraw_requested = FALSE]
       IN  /\ gpu' = g
           /\ app' = IF unwrap(g.last).result # "Ok" THEN panic(served) ELSE served
    /\ UNCHANGED <<camVars, modelVars, sceneVars, renderer>>

\* the camera rotation a key asks for, None for a key that is no arrow key
key_rotation(physical_key) ==
    CASE physical_key = "ArrowLeft" -> Some(<<0, -100>>)
      [] physical_key = "ArrowRight" -> Some(<<0, 100>>)
      [] physical_key = "ArrowUp" -> Some(<<100, 0>>)
      [] physical_key = "ArrowDown" -> Some(<<-100, 0>>)
      [] OTHER -> None

\* the record of the keys after an event of physical_key in `state` whose
\* handler made the camera.rotate calls `calls`, each with a redraw request
key_record(key, physical_key, state, calls) ==
    IF state = "Pressed"
    THEN [phase |-> "pressed", physical_key |-> Some(physical_key),
          calls |-> calls, redraws |-> Len(calls)]
    ELSE IF key.phase = "pressed" /\ key.physical_key = Some(physical_key)
    THEN [key EXCEPT !.phase = "released", !.calls = @ \o calls,
                     !.redraws = @ + Len(calls)]
    ELSE NoKey

\* WindowEvent::KeyboardInput: the handler reads event.physical_key only
KeyboardInput(physical_key, state) ==
    /\ app.status = "running"
    /\ app.events < MaxEvents
    /\ LET rot == key_rotation(physical_key)
       IN  IF is_some(rot)
           THEN /\ scene' = Some([unwrap(scene) EXCEPT
                        !.camera = Camera_rotate(@, unwrap(rot)[1], unwrap(rot)[2])])
                /\ app' = [app EXCEPT !.redraw_requested = TRUE, !.events = @ + 1,
                                      !.key = key_record(@, physical_key, state, rot)]
           ELSE /\ app' = [app EXCEPT !.events = @ + 1,
                                      !.key = key_record(@, physical_key, state, <<>>)]
                /\ UNCHANGED scene
    /\ UNCHANGED <<camVars, modelVars, disk, loads, iter, renderer, gpu>>

\* WindowEvent::MouseInput: dragging = (state.is_pressed(), None)
MouseInput(state) ==
    /\ app.status = "running"
    /\ app.events < MaxEvents
    /\ app' = [app EXCEPT !.dragging = <<state = "Pressed", None>>, !.events = @ + 1,
                          !.drag = IF state = "Pressed"
                                   THEN [NoDrag EXCEPT !.phase = "pressed",
                                                       !.press = app.cursor]
                                   ELSE IF @.phase = "pressed"
                                   THEN [@ EXCEPT !.phase = "released",
                                                  !.release = app.cursor]
                                   ELSE NoDrag]
    /\ UNCHANGED <<camVars, modelVars, sceneVars, renderer, gpu>>

\* WindowEvent::CursorMoved; -delta / 200.0 rad is -5 * delta mrad
CursorMoved(position) ==
    /\ app.status = "running"
    /\ app.events < MaxEvents
    /\ position # app.cursor
    /\ IF app.dragging[1]
       THEN IF is_some(app.dragging[2])
            THEN LET previous_position == unwrap(app.dragging[2])
                     delta_x == position[1] - previous_position[1]
                     delta_y == position[2] - previous_position[2]
                 IN  /\ scene' = Some([unwrap(scene) EXCEPT
                             !.camera = Camera_rotate(@, -5 * delta_y, -5 * delta_x)])
                     /\ app' = [app EXCEPT !.redraw_requested = TRUE,
                                           !.dragging = <<app.dragging[1], Some(position)>>,
                                           !.events = @ + 1,
                                           !.cursor = position,
                                           !.drag.moves = @ + 1,
                                           !.drag.calls =
                                               Append(@, <<-5 * delta_y, -5 * delta_x>>),
                                           !.drag.redraws = @ + 1]
            ELSE /\ app' = [app EXCEPT !.dragging = <<app.dragging[1], Some(position)>>,
                                       !.events = @ + 1,
                                       !.cursor = position,
                                       !.drag.moves = @ + 1]
                 /\ UNCHANGED scene
       ELSE /\ app' = [app EXCEPT !.events = @ + 1, !.cursor = position]
            /\ UNCHANGED scene
    /\ UNCHANGED <<camVars, modelVars, disk, loads, iter, renderer, gpu>>

\* WindowEvent::Resized falls to the `_ => {}` arm: the window has its new
\* inner size and nothing else changes
Resized(size) ==
    /\ app.status = "running"
    /\ app.events < MaxEvents
    /\ size # app.window_size
    /\ app' = [app EXCEPT !.window_size = size, !.events = @ + 1]
    /\ UNCHANGED <<camVars, modelVars, sceneVars, renderer, gpu>>

Next ==
    \/ \E size \in Sizes : resumed(size)
    \/ CloseRequested
    \/ \E acquire \in {"Ok"} \cup SurfaceErrors : RedrawRequested(acquire)
    \/ \E physical_key \in KeyCodes, state \in ElementStates : KeyboardInput(physical_key, state)
    \/ \E state \in ElementStates : MouseInput(state)
    \/ \E position \in CursorPositions : CursorMoved(position)
    \/ \E size \in Sizes : Resized(size)

Spec == Init /\ [][Next]_vars

(***************************************************************************)
(* Claims about Camera (CameraSpec)                                        *)
(***************************************************************************)

\* C1: after any sequence of rotate calls the stored pitch lies in
\* [-89 deg, +89 deg], and whenever the previous pitch plus deltaPitch lies
\* beyond a bound the stored pitch is exactly that bound.
C1_PitchClamped ==
    /\ camera.pitch >= -PitchLimit
    /\ camera.pitch <= PitchLimit
    /\ cam_hist.calls > 0 =>
        /\ cam_hist.before.pitch + cam_hist.d_pitch > PitchLimit => camera.pitch = PitchLimit
        /\ cam_hist.before.pitch + cam_hist.d_pitch < -PitchLimit => camera.pitch = -PitchLimit

\* a call that took the pitch from the lower bound past the upper bound
C1_Witness ==
    /\ cam_hist.calls >= 2
    /\ cam_hist.before.pitch = -PitchLimit
    /\ cam_hist.before.pitch + cam_hist.d_pitch > PitchLimit
    /\ camera.pitch = PitchLimit

\* C2: yaw is never clamped: the stored yaw equals the sum of all deltaYaw
\* arguments, whatever the deltaPitch arguments were and whether or not the
\* pitch was clamped.
C2_YawAccumulates == camera.yaw = cam_hist.yaw_sum

\* the yaw has left the range the pitch is clamped to, in a history in which
\* the pitch was clamped
C2_Witness ==
    /\ cam_hist.clamped
    /\ cam_hist.calls >= 2
    /\ camera.yaw < -PitchLimit

(***************************************************************************)
(* Claims about Model::tm (ModelSpec)                                      *)
(***************************************************************************)
TranslateM(t) ==
    <<  <<1, 0, 0, t[1]>>, <<0, 1, 0, t[2]>>, <<0, 0, 1, t[3]>>, <<0, 0, 0, 1>>  >>

ScaleM(s) ==
    <<  <<s[1], 0, 0, 0>>, <<0, s[2], 0, 0>>, <<0, 0, s[3], 0>>, <<0, 0, 0, 1>>  >>

\* C3: Model.tm() equals Translate(T) * Rotate(R) * Scale(S): a local point
\* is scaled, then rotated, then translated, so the translation is never
\* itself scaled or rotated.
C3_TmIsTRS ==
    is_some(tm_out) =>
        unwrap(tm_out) =
            MatMul(MatMul(TranslateM(model.translation), new_rotation(model.rotation)),
                   ScaleM(model.scaling))

\* what Model::tm computes: Scale(S) * Rotate(R) * Translate(T)
TmIsSRT ==
    is_some(tm_out) =>
        unwrap(tm_out) =
            MatMul(MatMul(ScaleM(model.scaling), new_rotation(model.rotation)),
                   TranslateM(model.translation))

(***************************************************************************)
(* Claims about Renderer (RendererSpec)                                    *)
(***************************************************************************)
LastFrame == unwrap(gpu.last)
LastResources == unwrap(LastFrame.resources)
LastPass == unwrap(LastFrame.pass)

\* the meshes of a scene as (model, mesh) positions
MeshPositions(models) ==
    UNION {{<<i, j>> : j \in 1..Len(models[i].meshes)} : i \in 1..Len(models)}

\* the place of a mesh in (model order, then mesh order)
MeshRank(models, p) ==
    1 + Cardinality({q \in MeshPositions(models) :
                        q[1] < p[1] \/ (q[1] = p[1] /\ q[2] < p[2])})

\* the positions of the draw commands of a pass, in order
DrawPositions(commands) ==
    SelectSeq([p \in 1..Len(commands) |-> p],
              LAMBDA p : commands[p].op = "draw_indexed")

\* C4: a render call that acquires a surface image issues exactly one indexed
\* draw per mesh, in (model order, mesh order); each draw follows the binding
\* of that mesh's vertex and index buffer, covers indices 0..(the mesh's index
\* count) with one instance, and there are as many draws as meshes.
C4_OneDrawPerMesh ==
    (is_some(gpu.last) /\ is_some(LastFrame.pass)) =>
        LET models == unwrap(scene).models
            commands == LastPass.commands
            draws == DrawPositions(commands)
        IN  /\ Len(draws) = Cardinality(MeshPositions(models))
            /\ \A p \in MeshPositions(models) :
                LET at == draws[MeshRank(models, p)]
                    mesh == models[p[1]].meshes[p[2]]
                    vertex_buffer == LastResources.vertex_buffers[p[1]][p[2]]
                    index_buffer == LastResources.index_buffers[p[1]][p[2]]
                IN  /\ commands[at].first = 0
                    /\ commands[at].end = Len(mesh.indices)
                    /\ commands[at].instances = 1
                    /\ commands[at - 2].op = "set_vertex_buffer"
                    /\ commands[at - 2].buffer = vertex_buffer.id
                    /\ commands[at - 1].op = "set_index_buffer"
                    /\ commands[at - 1].buffer = index_buffer.id
                    /\ vertex_buffer.contents = mesh_vertex_data(mesh, p[1] - 1)
                    /\ index_buffer.contents = mesh.indices

\* a pass over a scene of a two-mesh model followed by a one-mesh model
C4_Witness ==
    /\ is_some(gpu.last)
    /\ is_some(LastFrame.pass)
    /\ Len(unwrap(scene).models[1].meshes) = 2
    /\ Len(unwrap(scene).models[2].meshes) = 1
    /\ Len(DrawPositions(LastPass.commands)) = 3

\* C5: with no surface attached, render returns success and does nothing: no
\* per-frame resources, no acquisition, no draw, no submission, no present.
C5_NoSurfaceNoOp ==
    (is_some(gpu.last) /\ ~LastFrame.had_surface) =>
        /\ LastFrame.result = "Ok"
        /\ LastFrame.resources = None
        /\ LastFrame.acquire_attempts = 0
        /\ LastFrame.pass = None
        /\ LastFrame.submitted = 0
        /\ LastFrame.presented = 0

\* a render call made on a constructed renderer before add_surface
C5_Witness ==
    /\ is_some(renderer)
    /\ unwrap(renderer).surface = None
    /\ is_some(gpu.last)
    /\ ~LastFrame.had_surface

\* C6: when the acquisition fails, render returns that error after exactly one
\* attempt, with no draw, no submission, no present and no reconfiguration of
\* the surface, and the renderer's surface, layout and pipeline are as before
\* the call.
C6_AcquireErrorPropagated ==
    (is_some(gpu.last) /\ LastFrame.result # "Ok") =>
        /\ LastFrame.result \in SurfaceErrors
        /\ LastFrame.had_surface
        /\ LastFrame.acquire_attempts = 1
        /\ LastFrame.pass = None
        /\ LastFrame.submitted = 0
        /\ LastFrame.presented = 0
        /\ gpu.configures = LastFrame.configures_before
        /\ renderer = Some(LastFrame.renderer_before)

\* a failed render call that follows a successful one
C6_Witness ==
    /\ is_some(gpu.last)
    /\ LastFrame.result \in SurfaceErrors
    /\ is_some(LastFrame.prev)
    /\ unwrap(LastFrame.prev).result = "Ok"
    /\ is_some(unwrap(LastFrame.prev).depth)

\* a render call that draws and presents right after a failed one
RenderSucceedsAfterFailure ==
    /\ is_some(gpu.last)
    /\ is_some(LastFrame.pass)
    /\ LastFrame.presented = 1
    /\ is_some(LastFrame.prev)
    /\ unwrap(LastFrame.prev).result \in SurfaceErrors

\* C8: the texture-view array bound at binding 1 holds exactly one view per
\* entry of the scene's texture map, in the map's iteration order: the view
\* at position k shows the image of the k-th entry (the k-th image loaded,
\* when no name was inserted twice), in every frame.
C8_ViewsInMapOrder ==
    (is_some(gpu.last) /\ is_some(LastFrame.resources)) =>
        LET map == unwrap(scene).textures_map
            views == LastResources.bind_group.entries[1].texture_view_array
        IN  /\ Len(views) = Len(map)
            /\ \A k \in 1..Len(map) :
                /\ views[k].texture.written = map[k].value
                /\ views[k].texture.width = map[k].value.width
                /\ views[k].texture.height = map[k].value.height
                /\ Len(loads) = Len(map) => views[k].texture.written = decode(loads[k])
            /\ \A k, l \in 1..Len(views) : k # l => views[k].id # views[l].id

\* resources built for a map of at least two entries holding different images
C8_Witness ==
    /\ is_some(gpu.last)
    /\ is_some(LastFrame.resources)
    /\ Len(unwrap(scene).textures_map) >= 2
    /\ unwrap(scene).textures_map[1].value # unwrap(scene).textures_map[2].value
    /\ Len(loads) = Len(unwrap(scene).textures_map)

\* C9: the depth-stencil texture attached in a render call is created inside
\* that call with the width and height of that call's surfaceSize; a depth
\* view of an earlier render call is never attached in a later one.
C9_FreshDepthPerCall ==
    (is_some(gpu.last) /\ is_some(LastFrame.pass)) =>
        LET depth == LastPass.depth_stencil_attachment
        IN  /\ depth = LastResources.depth_texture_view
            /\ depth.texture.born = LastFrame.call
            /\ depth.texture.width = LastFrame.surface_size[1]
            /\ depth.texture.height = LastFrame.surface_size[2]
            /\ (is_some(LastFrame.prev) /\ is_some(unwrap(LastFrame.prev).depth)) =>
                    depth.id # unwrap(unwrap(LastFrame.prev).depth)

\* two consecutive render calls with different surfaceSize, both with a pass
C9_Witness ==
    /\ is_some(gpu.last)
    /\ is_some(LastFrame.pass)
    /\ is_some(LastFrame.prev)
    /\ is_some(unwrap(LastFrame.prev).depth)
    /\ unwrap(LastFrame.prev).surface_size # LastFrame.surface_size

\* C13: in every frame, for the model at position i of scene.models (counted
\* from 0), every VertexData record of every vertex buffer built for that
\* model carries model_idx = i and the model's 16-float transform occupies
\* floats [16*i, 16*i+16) of the storage buffer; so every model_idx in a
\* vertex buffer is smaller than the number of matrices in the storage
\* buffer and selects its own model's transform.
C13_ModelIdxSelectsOwnTransform ==
    (is_some(gpu.last) /\ is_some(LastFrame.resources)) =>
        LET models == unwrap(scene).models
            vbs == LastResources.vertex_buffers
            storage == LastResources.bind_group.entries[0].buffer.contents
            matrices == Len(storage) \div 16
        IN  /\ Len(vbs) = Len(models)
            /\ Len(storage) = 16 * Len(models)
            /\ \A i \in 0..(Len(models) - 1) :
                /\ SubSeq(storage, 16 * i + 1, 16 * i + 16) = as_slice(Model_tm(models[i + 1]))
                /\ \A j \in 1..Len(vbs[i + 1]) :
                    \A k \in 1..Len(vbs[i + 1][j].contents) :
                        LET model_idx == vbs[i + 1][j].contents[k].model_idx
                        IN  /\ model_idx = i
                            /\ model_idx < matrices
                            /\ SubSeq(storage, 16 * model_idx + 1, 16 * model_idx + 16)
                                   = as_slice(Model_tm(models[i + 1]))

\* the second frame of a scene whose two models both have vertices and have
\* different transforms
C13_Witness ==
    /\ is_some(gpu.last)
    /\ is_some(LastFrame.resources)
    /\ LastFrame.call = 2
    /\ Len(LastResources.vertex_buffers) = 2
    /\ \E j \in 1..Len(LastResources.vertex_buffers[1]) :
           Len(LastResources.vertex_buffers[1][j].contents) > 0
    /\ \E j \in 1..Len(LastResources.vertex_buffers[2]) :
           Len(LastResources.vertex_buffers[2][j].contents) > 0
    /\ Model_tm(unwrap(scene).models[1]) # Model_tm(unwrap(scene).models[2])

\* C14: the VertexData record is 36 bytes with the fields position, normal,
\* uv, model index at byte offsets 0, 12, 24, 32 and no padding, and the
\* pipeline's vertex buffer layout uses exactly these values: array stride 36
\* and attribute offsets 0, 12, 24, 32 for the shader locations 0, 1, 2, 3
\* with the formats 3 x f32, 3 x f32, 2 x f32, u32.
C14_VertexLayoutMatchesRecord ==
    LET fields == VertexData_fields
        offsets == repr_C_offsets(fields)
    IN  /\ [k \in 1..Len(fields) |-> fields[k].name]
               = <<"position", "normal", "uv", "model_idx">>
        /\ size_of_VertexData = 36
        /\ offsets = <<0, 12, 24, 32>>
        \* no padding: every field begins where the one before it ends, and
        \* the record ends with its last field
        /\ \A k \in 2..Len(fields) : offsets[k] = offsets[k - 1] + fields[k - 1].size
        /\ size_of_VertexData = offsets[Len(fields)] + fields[Len(fields)].size
        /\ is_some(renderer) =>
               LET buffers == unwrap(renderer).render_pipeline.vertex.buffers
                   layout == buffers[1]
               IN  /\ Len(buffers) = 1
                   /\ layout.array_stride = 36
                   /\ layout.array_stride = size_of_VertexData
                   /\ layout.attributes =
                          << [format |-> "Float32x3", offset |-> 0, shader_location |-> 0],
                             [format |-> "Float32x3", offset |-> 12, shader_location |-> 1],
                             [format |-> "Float32x2", offset |-> 24, shader_location |-> 2],
                             [format |-> "Uint32", offset |-> 32, shader_location |-> 3] >>
                   /\ \A k \in 1..Len(fields) :
                          /\ layout.attributes[k].offset = offsets[k]
                          /\ VertexFormat_size(layout.attributes[k].format) = fields[k].size

\* a frame drawn with the pipeline from a vertex buffer that holds records
C14_Witness ==
    /\ is_some(renderer)
    /\ is_some(gpu.last)
    /\ is_some(LastFrame.pass)
    /\ LastPass.commands[1].pipeline = unwrap(renderer).render_pipeline
    /\ \E j \in 1..Len(LastResources.vertex_buffers[1]) :
           Len(LastResources.vertex_buffers[1][j].contents) > 0

\* C18: Renderer.new requires textures_count >= 1: called with
\* textures_count = 0 (a scene in which no material has a diffuse texture)
\* it fails fatally (panic, exit code 1) and no engine is produced, then or
\* later; for every textures_count >= 1 it produces an engine whose layout
\* has a texture-array count of exactly textures_count.
C18_RendererNewNeedsTexture ==
    [][LET textures_count == IndexMap_len(unwrap(scene).textures_map)
       IN  /\ (renderer = None /\ app.status = "running"
                   /\ (renderer' # renderer \/ app' # app)) =>
                  IF textures_count = 0
                  THEN /\ renderer' = None
                       /\ app'.status = "exited"
                       /\ app'.exit_code = Some(1)
                  ELSE /\ is_some(renderer')
                       /\ app' = app
                       /\ unwrap(renderer').bind_group_layout.texture_array_count
                              = textures_count
                       /\ unwrap(renderer').render_pipeline.layout.texture_array_count
                              = textures_count
           /\ app.status = "exited" => UNCHANGED vars]_vars

\* Renderer::new was called for a scene without textures
C18_Witness ==
    /\ IndexMap_len(unwrap(scene).textures_map) = 0
    /\ app.status = "exited"
    /\ app.exit_code = Some(1)
    /\ renderer = None
    /\ Len(unwrap(scene).models[1].materials) + Len(unwrap(scene).models[2].materials) > 0

\* the size of the texture map Scene::new builds from the files: the number
\* of different names among the texture-bearing materials
TexturesAtConstruction ==
    LET mats == disk.teapot.materials \o disk.cube.materials
    IN  Cardinality({mats[k].name : k \in {l \in 1..Len(mats) : mats[l].diffuse_texture # None}})

\* C7 (Spec): in every render call of a session the number of texture views
\* bound at binding 1 equals the texture-array count fixed in the bind-group
\* layout at construction, the scene's texture-map size at that time, for any
\* sequence of input events and redraws.
C7_ViewCountIsLayoutCount ==
    (is_some(gpu.last) /\ is_some(LastFrame.resources)) =>
        LET bind_group == LastResources.bind_group
        IN  /\ Len(bind_group.entries[1].texture_view_array)
                   = bind_group.layout.texture_array_count
            /\ bind_group.layout = unwrap(renderer).bind_group_layout
            /\ bind_group.layout.texture_array_count = TexturesAtConstruction

\* the second render call of a session with two textures, after a resize and
\* a rotation of the camera
C7_Witness ==
    /\ is_some(gpu.last)
    /\ is_some(LastFrame.pass)
    /\ LastFrame.call = 2
    /\ app.events >= 2
    /\ Len(LastResources.bind_group.entries[1].texture_view_array) = 2
    /\ LastFrame.surface_size # unwrap(LastFrame.prev).surface_size
    /\ LastResources.bind_group.entries[3].buffer.contents.eye_yaw # 0

(***************************************************************************)
(* Claims about Scene (SceneSpec)                                          *)
(***************************************************************************)

\* the names under which Scene::new inserts a texture, in the order of the
\* insertions: the texture-bearing materials of teapot.obj, then of cube.obj
InsertedNames ==
    LET mats == disk.teapot.materials \o disk.cube.materials
        textured == SelectSeq(mats, LAMBDA m : m.diffuse_texture # None)
    IN  [k \in 1..Len(textured) |-> textured[k].name]

\* the position of the first insertion under a name
FirstInsertion(name) ==
    CHOOSE k \in 1..Len(InsertedNames) :
        /\ InsertedNames[k] = name
        /\ \A l \in 1..(k - 1) : InsertedNames[l] # name

\* C10: the texture map built by Scene.new never holds two entries with the
\* same material name, its iteration order is the order in which each name
\* was first inserted, and every iteration meets the keys in that order.
C10_TextureMapOrder ==
    is_some(scene) =>
        LET keys == IndexMap_keys(unwrap(scene).textures_map)
        IN  /\ \A k, l \in 1..Len(keys) : k # l => keys[k] # keys[l]
            /\ {keys[k] : k \in 1..Len(keys)}
                   = {InsertedNames[k] : k \in 1..Len(InsertedNames)}
            /\ \A k, l \in 1..Len(keys) :
                   k < l => FirstInsertion(keys[k]) < FirstInsertion(keys[l])
            /\ is_some(iter) => unwrap(iter) = keys

\* a name inserted again after another name was inserted, and the map read
C10_Witness ==
    /\ is_some(scene)
    /\ is_some(iter)
    /\ Len(InsertedNames) >= 3
    /\ InsertedNames[1] = InsertedNames[3]
    /\ InsertedNames[1] # InsertedNames[2]
    /\ Len(unwrap(scene).textures_map) = 2

\* C11: during Scene.new, for every distinct material name that carries a
\* diffuse texture the image file is opened and decoded exactly once, also
\* when several materials have that name: the number of images loaded is the
\* number of distinct names, a name met again causes no second load.
C11_OneLoadPerName ==
    is_some(scene) => Len(loads) = TexturesAtConstruction

\* what Scene::new does: one image opened and decoded per texture-bearing
\* material, whether or not its name was met before
OneLoadPerTexturedMaterial ==
    is_some(scene) =>
        /\ Len(loads) = Len(InsertedNames)
        /\ Len(loads) >= TexturesAtConstruction

(***************************************************************************)
(* Claims about Model::vertex_data (VertexSpec)                            *)
(***************************************************************************)

\* C12: for every mesh whose normal array is empty, Model.vertex_data
\* produces exactly one record per vertex (positions length / 3 records),
\* each with normal (0,0,0).
C12_ZeroNormalPerVertex ==
    is_some(vertex_out) =>
        LET data == unwrap(vertex_out).data
        IN  \A j \in 1..Len(model.meshes) :
                model.meshes[j].normals = <<>> =>
                    /\ Len(data[j]) = Len(model.meshes[j].positions) \div 3
                    /\ \A k \in 1..Len(data[j]) : data[j][k].normal = <<0, 0, 0>>

\* what Model::vertex_data does for a mesh without normals: the records stop
\* with the shorter of the positions and the texture coordinates, and every
\* record made has the normal (0,0,0)
ZeroNormalsUpToTexcoords ==
    is_some(vertex_out) =>
        LET data == unwrap(vertex_out).data
        IN  /\ Len(data) = Len(model.meshes)
            /\ \A j \in 1..Len(model.meshes) :
                model.meshes[j].normals = <<>> =>
                    /\ Len(data[j]) = Min(Len(model.meshes[j].positions) \div 3,
                                          Len(model.meshes[j].texcoords) \div 2)
                    /\ \A k \in 1..Len(data[j]) : data[j][k].normal = <<0, 0, 0>>

(***************************************************************************)
(* Claims about the winit application (Spec)                               *)
(***************************************************************************)

\* C15: a mouse drag (button pressed, cursor moved by (dx, dy) pixels from
\* the press position, button released) calls camera.rotate(-dy/200, -dx/200)
\* exactly once and requests a redraw; a drag of (200, 0) calls
\* rotate(0, -1.0) exactly once.  Angles in milliradians: -d/200 rad is -5 * d.
C15_DragRotatesOnce ==
    (app.drag.phase = "released" /\ app.drag.release # app.drag.press) =>
        LET dx == app.drag.release[1] - app.drag.press[1]
            dy == app.drag.release[2] - app.drag.press[2]
        IN  /\ app.drag.calls = << <<-5 * dy, -5 * dx>> >>
            /\ app.drag.redraws >= 1
            /\ (dx = 200 /\ dy = 0) => app.drag.calls = << <<0, -1000>> >>

\* what the CursorMoved handler does in a drag: the first event after the
\* press only stores its position, every later one calls camera.rotate with
\* the movement since the event before it and requests a redraw
DragRotatesPerLaterMove ==
    app.drag.phase # "none" =>
        /\ Len(app.drag.calls) = (IF app.drag.moves = 0 THEN 0 ELSE app.drag.moves - 1)
        /\ app.drag.redraws = Len(app.drag.calls)

\* C16: one press-and-release of an arrow key results in exactly one
\* camera.rotate call of the fixed 0.1 rad increment (Left: yaw -0.1, Right:
\* yaw +0.1, Up: pitch +0.1, Down: pitch -0.1) followed by a redraw request;
\* the events of any other key make no rotate call and request no redraw.
C16_OneRotatePerKeyPress ==
    app.key.phase = "released" =>
        LET physical_key == unwrap(app.key.physical_key)
        IN  /\ physical_key = "ArrowLeft" =>
                   app.key.calls = << <<0, -100>> >> /\ app.key.redraws >= 1
            /\ physical_key = "ArrowRight" =>
                   app.key.calls = << <<0, 100>> >> /\ app.key.redraws >= 1
            /\ physical_key = "ArrowUp" =>
                   app.key.calls = << <<100, 0>> >> /\ app.key.redraws >= 1
            /\ physical_key = "ArrowDown" =>
                   app.key.calls = << <<-100, 0>> >> /\ app.key.redraws >= 1
            /\ physical_key \notin {"ArrowLeft", "ArrowRight", "ArrowUp", "ArrowDown"} =>
                   app.key.calls = <<>> /\ app.key.redraws = 0

\* what the KeyboardInput handler does: every event of an arrow key, the
\* press and the release alike, calls camera.rotate with the key's increment
\* and requests a redraw; the events of other keys do nothing
OneRotatePerKeyEvent ==
    app.key.phase # "none" =>
        LET rot == key_rotation(unwrap(app.key.physical_key))
            events == IF app.key.phase = "pressed" THEN 1 ELSE 2
        IN  /\ app.key.calls = (IF rot = None THEN <<>>
                                ELSE [k \in 1..events |-> unwrap(rot)])
            /\ app.key.redraws = Len(app.key.calls)

\* C17: in every render pass of the winit application, for any sequence of
\* window resizes and redraw requests, the depth-stencil attachment has the
\* same width and height as the colour attachment (the surface image, whose
\* size is the one the surface was configured with in add_surface).
C17_DepthSizeIsColourSize ==
    (is_some(gpu.last) /\ is_some(LastFrame.pass)) =>
        /\ LastPass.depth_stencil_attachment.texture.width
               = LastPass.color_attachment.texture.width
        /\ LastPass.depth_stencil_attachment.texture.height
               = LastPass.color_attachment.texture.height

\* what the application does: the colour attachment keeps the size the
\* surface was configured with in resumed, the only configuration of a
\* session, while the depth attachment has the size of the window at the
\* redraw
DepthFollowsWindowColourDoesNot ==
    (is_some(gpu.last) /\ is_some(LastFrame.pass)) =>
        /\ gpu.configures = 1
        /\ LastPass.color_attachment.texture.width = unwrap(unwrap(renderer).surface).width
        /\ LastPass.color_attachment.texture.height = unwrap(unwrap(renderer).surface).height
        /\ LastPass.depth_stencil_attachment.texture.width = LastFrame.surface_size[1]
        /\ LastPass.depth_stencil_attachment.texture.height = LastFrame.surface_size[2]

\* C19: in the winit application, when render returns a surface error for a
\* redraw request the process terminates with exit code 1 (the error is
\* unwrapped into a panic and the panic hook exits): the frame is not
\* skipped, the surface is not configured again, and no later event or
\* redraw is processed.
C19_SurfaceErrorExits ==
    [][/\ (gpu'.calls = gpu.calls + 1 /\ unwrap(gpu'.last).result \in SurfaceErrors) =>
              /\ app.status = "running"
              /\ app'.status = "exited"
              /\ app'.exit_code = Some(1)
              /\ gpu'.configures = gpu.configures
              /\ renderer' = renderer
              /\ unwrap(gpu'.last).acquire_attempts = 1
              /\ unwrap(gpu'.last).presented = 0
       /\ (app.status = "exited" /\ is_some(gpu.last)
               /\ unwrap(gpu.last).result \in SurfaceErrors) => UNCHANGED vars]_vars

\* the second redraw of a session fails after input events were handled and
\* the first redraw presented a frame
C19_Witness ==
    /\ app.status = "exited"
    /\ app.exit_code = Some(1)
    /\ is_some(gpu.last)
    /\ LastFrame.result \in SurfaceErrors
    /\ LastFrame.call = 2
    /\ unwrap(LastFrame.prev).result = "Ok"
    /\ app.events >= 1
    /\ app.events < MaxEvents

====
